---- MODULE Spec2Model ----
(***************************************************************************)
(* Model of Untitled-1.py: a LangGraph StateGraph with the nodes router,   *)
(* chatbot, tools and compare, and the interactive loop that streams user  *)
(* input through the compiled graph.                                       *)
(*                                                                         *)
(* Text (user input, model replies, message contents) is a sequence of     *)
(* one-character strings, so that str.strip() and str.lower() are modelled *)
(* by what they do.                                                        *)
(*                                                                         *)
(* Two specifications are given:                                           *)
(*   Spec      the compiled graph (line 132) streamed to exhaustion, one   *)
(*             run after another, by a consumer that does not look into    *)
(*             the events;                                                 *)
(*   LoopSpec  the script as written: the interactive loop of lines        *)
(*             147-158 around stream_graph_updates (lines 142-145).        *)
(***************************************************************************)
EXTENDS Naturals, Sequences, FiniteSets

VARIABLES
    pc,             \* position of the script: "graph" (no loop, Spec only),
                    \* "prompt" (line 149), "stream" (inside line 153),
                    \* "handler" (inside line 157), "done" (break), "crashed"
    line,           \* user_input of the loop
    reads,          \* number of lines input() has returned
    raisedAt,       \* history: pc at each exception raised in the loop
    runsLog,        \* history: one record per graph.stream call
    printed,        \* the texts printed after "Assistant:"
    run,            \* "none", "active", "ended" (END reached), "raised"
    query,          \* the user_input the current run was started with
    messages,       \* State.messages
    chatbot_answer, \* State.chatbot_answer: <<>> unset, <<text>> set
    tool_answer,    \* State.tool_answer: <<>> unset, <<text>> set
    active,         \* the nodes scheduled for the next step of the run
    executed,       \* history: the nodes whose function ran in this run
    event,          \* the update yielded by graph.stream, not yet consumed
    calls,          \* history: replies to the classification calls of the run
    callFailed,     \* history: a language-model call of this run raised
    label,          \* the decision route_decision obtained in this run
    merged,         \* history: the two answers compare_answers last read
    nextId          \* source of fresh message ids

loopVars == <<pc, line, reads, raisedAt, printed>>
runVars == <<run, query, messages, chatbot_answer, tool_answer, active,
             executed, event, calls, callFailed, label, merged>>
vars == <<pc, line, reads, raisedAt, runsLog, printed, run, query, messages,
          chatbot_answer, tool_answer, active, executed, event, calls,
          callFailed, label, merged, nextId>>

---------------------------------------------------------------------------
(* Bounds *)

\* graph.stream calls per session of Spec
MaxRuns == 2
\* lines read by the loop of LoopSpec
MaxReads == 2

---------------------------------------------------------------------------
(* Text *)

UpperAlpha == <<"A","B","C","D","E","F","G","H","I","J","K","L","M",
                "N","O","P","Q","R","S","T","U","V","W","X","Y","Z">>
LowerAlpha == <<"a","b","c","d","e","f","g","h","i","j","k","l","m",
                "n","o","p","q","r","s","t","u","v","w","x","y","z">>

LowerChar(c) ==
    IF \E i \in 1..Len(UpperAlpha) : UpperAlpha[i] = c
    THEN LowerAlpha[CHOOSE i \in 1..Len(UpperAlpha) : UpperAlpha[i] = c]
    ELSE c

\* str.lower()
lower(s) == [i \in 1..Len(s) |-> LowerChar(s[i])]

IsSpace(c) == c \in {" ", "\n", "\t"}

RECURSIVE lstrip(_)
lstrip(s) == IF s # <<>> /\ IsSpace(Head(s)) THEN lstrip(Tail(s)) ELSE s

RECURSIVE rstrip(_)
rstrip(s) ==
    IF s # <<>> /\ IsSpace(s[Len(s)]) THEN rstrip(SubSeq(s, 1, Len(s) - 1)) ELSE s

\* str.strip()
strip(s) == rstrip(lstrip(s))

S_memory == <<"m","e","m","o","r","y">>
S_tools == <<"t","o","o","l","s">>
S_both == <<"b","o","t","h">>

\* the labels of line 73
Labels == {S_memory, S_tools, S_both}

\* the literals of line 150
QuitWords == {<<"q","u","i","t">>, <<"e","x","i","t">>, <<"q">>}

\* the hardcoded question of line 155, abbreviated
Fallback == <<"L","G","?">>

\* contents the language model may return to a classification prompt
Replies == {S_memory, S_tools, S_both,
            <<"M","e","m","o","r","y">>,
            <<" ","t","o","o","l","s","\n">>,
            <<"B","O","T","H">>,
            <<"b","o","t","h",".">>,
            <<"n","o">>,
            <<>>}

\* contents the language model may return to a chat or merge prompt
Answers == {<<"a","1">>, <<"a","2">>}

\* lines input() may return
Lines == {<<"q","u","i","t">>, <<"e","x","i","t">>, <<"q">>,
          <<"Q","U","I","T">>, <<"E","x","i","t">>, <<"Q">>,
          <<"q","u","i","t"," ">>, <<" ","q">>,
          <<"h","i">>, <<"q","?">>, <<>>}

\* the user_input values Spec streams
Queries == {<<"h","i">>, <<"q","?">>}

\* outcome of llm.invoke: a message with some content, or an exception
LLMOutcomes(contents) ==
    [ok : {TRUE}, content : contents] \cup [ok : {FALSE}, content : {<<>>}]

---------------------------------------------------------------------------
(* Messages and the State channels *)

Human(text, id) == [type |-> "human", content |-> text, id |-> id, tool_calls |-> 0]
AI(text, id) == [type |-> "ai", content |-> text, id |-> id, tool_calls |-> 0]
ToolMsg(text, id) == [type |-> "tool", content |-> text, id |-> id, tool_calls |-> 0]

\* a messages channel declared without its reducer: an update overwrites it
add_messages_overwrite(left, right) == right

\* the reducer of State.messages: a message whose id is already in the list
\* replaces that entry, any other message is appended
RECURSIVE add_messages(_, _)
add_messages(left, right) ==
    IF right = <<>> THEN left
    ELSE LET m == Head(right)
             merged1 ==
                 IF \E i \in 1..Len(left) : left[i].id = m.id
                 THEN [i \in 1..Len(left) |->
                          IF left[i].id = m.id THEN m ELSE left[i]]
                 ELSE Append(left, m)
         IN add_messages(merged1, Tail(right))

\* state.get(key) without the default: a missing key is formatted as None
get_NoDefault(channel) == IF channel = <<>> THEN <<"N","o","n","e">> ELSE channel[1]

\* state.get(key, "")
get(channel) == IF channel = <<>> THEN <<>> ELSE channel[1]

NoEvent == [node |-> "none", kind |-> "none", text |-> <<>>, msgs |-> <<>>]
NoLabel == [kind |-> "none", text |-> <<>>]
NoMerge == [read |-> FALSE, chatbot_ans |-> <<>>, tool_ans |-> <<>>]

---------------------------------------------------------------------------
(* The functions of the script *)

\* router without the .lower() of line 72
router_NoLower(reply) ==
    LET decision == strip(reply)
    IN IF decision \notin Labels
       THEN [kind |-> "dict", text |-> S_memory]
       ELSE [kind |-> "str", text |-> decision]

\* router, lines 72-75, applied to the content the model returned: the
\* decision is a string, or on the fallback the dict {"messages": "memory"}
router(reply) ==
    LET decision == lower(strip(reply))
    IN IF decision \notin Labels
       THEN [kind |-> "dict", text |-> S_memory]
       ELSE [kind |-> "str", text |-> decision]

\* route_decision, lines 109-116, applied to the decision router returned
route_decision(decision) ==
    IF decision.kind = "str" /\ decision.text = S_memory THEN "chatbot"
    ELSE IF decision.kind = "str" /\ decision.text = S_tools THEN "tools"
    ELSE IF decision.kind = "str" /\ decision.text = S_both THEN "compare"
    ELSE "chatbot"

\* the wiring the comment of line 123 describes, with router also fanning
\* out to chatbot and tools
Edges_FanOut ==
    {<<"START", "router">>,
     <<"router", "chatbot">>, <<"router", "tools">>,
     <<"chatbot", "compare">>, <<"tools", "compare">>,
     <<"chatbot", "END">>, <<"tools", "END">>, <<"compare", "END">>}

\* add_edge calls, lines 104 and 124-130
Edges == {<<"START", "router">>,
          <<"chatbot", "compare">>, <<"tools", "compare">>,
          <<"chatbot", "END">>, <<"tools", "END">>, <<"compare", "END">>}

\* the nodes a finished node schedules through its plain edges
Successors(n) == {e[2] : e \in {d \in Edges : d[1] = n}} \ {"END"}

---------------------------------------------------------------------------
(* Initial states *)

NoRun ==
    /\ run = "none"
    /\ query = <<>>
    /\ messages = <<>>
    /\ chatbot_answer = <<>>
    /\ tool_answer = <<>>
    /\ active = {}
    /\ executed = <<>>
    /\ event = NoEvent
    /\ calls = <<>>
    /\ callFailed = FALSE
    /\ label = NoLabel
    /\ merged = NoMerge
    /\ nextId = 1
    /\ runsLog = <<>>
    /\ line = <<>>
    /\ reads = 0
    /\ raisedAt = <<>>
    /\ printed = <<>>

\* the compiled graph, before any graph.stream call
Init == pc = "graph" /\ NoRun

\* the script at the first pass through line 149
LoopInit == pc = "prompt" /\ NoRun

---------------------------------------------------------------------------
(* graph.stream, line 143 *)

\* a graph compiled with a checkpointer and streamed on one thread: the
\* channels of the earlier run are kept
StartRun_Checkpointed(q, from) ==
    /\ run' = "active"
    /\ query' = q
    /\ messages' = add_messages(messages, <<Human(q, nextId)>>)
    /\ nextId' = nextId + 1
    /\ UNCHANGED <<chatbot_answer, tool_answer>>
    /\ active' = Successors("START")
    /\ executed' = <<>>
    /\ event' = NoEvent
    /\ calls' = <<>>
    /\ callFailed' = FALSE
    /\ label' = NoLabel
    /\ merged' = NoMerge
    /\ runsLog' = Append(runsLog, [q |-> q, from |-> from])

\* graph.stream({"messages": [{"role": "user", "content": q}]}) on the graph
\* of line 132, which is compiled without a checkpointer: the channels start
\* empty, the input is written through the messages reducer, and the edge
\* from START schedules router
StartRun(q, from) ==
    /\ run' = "active"
    /\ query' = q
    /\ messages' = add_messages(<<>>, <<Human(q, nextId)>>)
    /\ nextId' = nextId + 1
    /\ chatbot_answer' = <<>>
    /\ tool_answer' = <<>>
    /\ active' = Successors("START")
    /\ executed' = <<>>
    /\ event' = NoEvent
    /\ calls' = <<>>
    /\ callFailed' = FALSE
    /\ label' = NoLabel
    /\ merged' = NoMerge
    /\ runsLog' = Append(runsLog, [q |-> q, from |-> from])

\* a loop without the try of line 148: every exception ends the script
Raise_Uncaught(exec, cls, failed) ==
    /\ raisedAt' = IF pc = "graph" THEN raisedAt ELSE Append(raisedAt, pc)
    /\ pc' = IF pc = "graph" THEN pc ELSE "crashed"
    /\ run' = IF run = "active" THEN "raised" ELSE run
    /\ executed' = exec
    /\ calls' = cls
    /\ callFailed' = failed
    /\ event' = NoEvent
    /\ UNCHANGED <<line, reads, printed, query, messages, chatbot_answer,
                   tool_answer, active, label, merged, nextId, runsLog>>

\* a handler that is itself inside the try: an exception of the fallback
\* run is caught like any other and the fallback question is run again
Raise_RetryAgain(exec, cls, failed) ==
    /\ raisedAt' = IF pc = "graph" THEN raisedAt ELSE Append(raisedAt, pc)
    /\ IF pc # "graph"
       THEN /\ pc' = "handler"
            /\ line' = Fallback
            /\ StartRun(Fallback, "except")
            /\ UNCHANGED <<reads, printed>>
       ELSE /\ pc' = pc
            /\ run' = "raised"
            /\ executed' = exec
            /\ calls' = cls
            /\ callFailed' = failed
            /\ event' = NoEvent
            /\ UNCHANGED <<line, reads, printed, query, messages, chatbot_answer,
                           tool_answer, active, label, merged, nextId, runsLog>>

\* An exception leaves the code at pc. In the try block (lines 149-153) the
\* bare except of line 154 takes it: lines 155-157 set the hardcoded question
\* and call stream_graph_updates again. Inside that call (line 157) nothing
\* catches it and the script ends with a traceback. exec, cls and failed are
\* the histories of the run that raised.
Raise(exec, cls, failed) ==
    /\ raisedAt' = IF pc = "graph" THEN raisedAt ELSE Append(raisedAt, pc)
    /\ IF pc \in {"prompt", "stream"}
       THEN /\ pc' = "handler"
            /\ line' = Fallback
            /\ StartRun(Fallback, "except")
            /\ UNCHANGED <<reads, printed>>
       ELSE /\ pc' = IF pc = "handler" THEN "crashed" ELSE pc
            /\ run' = "raised"
            /\ executed' = exec
            /\ calls' = cls
            /\ callFailed' = failed
            /\ event' = NoEvent
            /\ UNCHANGED <<line, reads, printed, query, messages, chatbot_answer,
                           tool_answer, active, label, merged, nextId, runsLog>>

\* graph.stream is exhausted and stream_graph_updates returns: line 153 is
\* followed by the next pass of the while loop, line 157 by the break of
\* line 158
Return ==
    /\ run' = "ended"
    /\ pc' = IF pc = "stream" THEN "prompt"
             ELSE IF pc = "handler" THEN "done"
             ELSE pc

\* a node's update is applied and its successors are scheduled
Commit(n, msgs, next, ev) ==
    /\ messages' = msgs
    /\ active' = next
    /\ executed' = Append(executed, n)
    /\ event' = ev
    /\ UNCHANGED <<run, query, runsLog, loopVars>>

---------------------------------------------------------------------------
(* The nodes *)

\* One step of the run at the router node (lines 56-77) and its conditional
\* edge (lines 107-121). The node calls the model once. A valid label makes
\* the node return a bare string, which StateGraph rejects as a state update
\* (InvalidUpdateError). The fallback returns {"messages": "memory"}, which
\* the messages reducer turns into one more human message; route_decision
\* then calls router again and its result names the next node.
RouterNode ==
    /\ run = "active" /\ active = {"router"} /\ event = NoEvent
    /\ \E o1 \in LLMOutcomes(Replies) :
        IF ~o1.ok
        THEN Raise(Append(executed, "router"), calls, TRUE)
        ELSE LET d1 == router(o1.content) IN
             IF d1.kind = "str"
             THEN Raise(Append(executed, "router"), Append(calls, o1.content),
                        callFailed)
             ELSE \E o2 \in LLMOutcomes(Replies) :
                 IF ~o2.ok
                 THEN Raise(Append(executed, "router"),
                            Append(calls, o1.content), TRUE)
                 ELSE /\ Commit("router",
                                add_messages(messages, <<Human(d1.text, nextId)>>),
                                Successors("router")
                                    \cup {route_decision(router(o2.content))},
                                [node |-> "router", kind |-> "str",
                                 text |-> d1.text, msgs |-> <<>>])
                      /\ nextId' = nextId + 1
                      /\ calls' = calls \o <<o1.content, o2.content>>
                      /\ label' = router(o2.content)
                      /\ UNCHANGED <<chatbot_answer, tool_answer, callFailed,
                                     merged>>

\* chatbot recording the content of the message it was asked, not of the answer
ChatbotNode_StaleAnswer ==
    /\ run = "active" /\ active = {"chatbot"} /\ event = NoEvent
    /\ \E o \in LLMOutcomes(Answers) :
        IF ~o.ok
        THEN Raise(Append(executed, "chatbot"), calls, TRUE)
        ELSE LET answer == AI(o.content, nextId) IN
             /\ Commit("chatbot", add_messages(messages, <<answer>>),
                       Successors("chatbot"),
                       [node |-> "chatbot", kind |-> "list", text |-> <<>>,
                        msgs |-> <<answer>>])
             /\ chatbot_answer' = <<messages[Len(messages)].content>>
             /\ nextId' = nextId + 1
             /\ UNCHANGED <<tool_answer, calls, callFailed, label, merged>>

\* chatbot returning its answer under the key tool_answer as well
ChatbotNode_WritesToolAnswer ==
    /\ run = "active" /\ active = {"chatbot"} /\ event = NoEvent
    /\ \E o \in LLMOutcomes(Answers) :
        IF ~o.ok
        THEN Raise(Append(executed, "chatbot"), calls, TRUE)
        ELSE LET answer == AI(o.content, nextId) IN
             /\ Commit("chatbot", add_messages(messages, <<answer>>),
                       Successors("chatbot"),
                       [node |-> "chatbot", kind |-> "list", text |-> <<>>,
                        msgs |-> <<answer>>])
             /\ chatbot_answer' = <<answer.content>>
             /\ tool_answer' = <<answer.content>>
             /\ nextId' = nextId + 1
             /\ UNCHANGED <<calls, callFailed, label, merged>>

\* chatbot, lines 32-34
ChatbotNode ==
    /\ run = "active" /\ active = {"chatbot"} /\ event = NoEvent
    /\ \E o \in LLMOutcomes(Answers) :
        IF ~o.ok
        THEN Raise(Append(executed, "chatbot"), calls, TRUE)
        ELSE LET answer == AI(o.content, nextId) IN
             /\ Commit("chatbot", add_messages(messages, <<answer>>),
                       Successors("chatbot"),
                       [node |-> "chatbot", kind |-> "list", text |-> <<>>,
                        msgs |-> <<answer>>])
             /\ chatbot_answer' = <<answer.content>>
             /\ nextId' = nextId + 1
             /\ UNCHANGED <<tool_answer, calls, callFailed, label, merged>>

\* tool_node, line 51: ToolNode runs the tool calls of the latest message,
\* which must be a model message, and appends one tool message per call;
\* any other latest message is a ValueError
ToolsNode ==
    /\ run = "active" /\ active = {"tools"} /\ event = NoEvent
    /\ LET latest == messages[Len(messages)] IN
       IF latest.type = "ai" /\ latest.tool_calls > 0
       THEN \E o \in Answers :
            LET out == ToolMsg(o, nextId) IN
            /\ Commit("tools", add_messages(messages, <<out>>),
                      Successors("tools"),
                      [node |-> "tools", kind |-> "list", text |-> <<>>,
                       msgs |-> <<out>>])
            /\ nextId' = nextId + 1
            /\ UNCHANGED <<chatbot_answer, tool_answer, calls, callFailed,
                           label, merged>>
       ELSE Raise(Append(executed, "tools"), calls, callFailed)

\* compare_answers, lines 81-98
CompareNode ==
    /\ run = "active" /\ active = {"compare"} /\ event = NoEvent
    /\ LET chatbot_ans == get(chatbot_answer)
           tool_ans == get(tool_answer)
       IN \E o \in LLMOutcomes(Answers) :
           IF ~o.ok
           THEN Raise(Append(executed, "compare"), calls, TRUE)
           ELSE LET final == AI(o.content, nextId) IN
                /\ Commit("compare", add_messages(messages, <<final>>),
                          Successors("compare"),
                          [node |-> "compare", kind |-> "list", text |-> <<>>,
                           msgs |-> <<final>>])
                /\ merged' = [read |-> TRUE, chatbot_ans |-> chatbot_ans,
                              tool_ans |-> tool_ans]
                /\ nextId' = nextId + 1
                /\ UNCHANGED <<chatbot_answer, tool_answer, calls, callFailed,
                               label>>

---------------------------------------------------------------------------
(* The consumers of graph.stream *)

\* graph.stream is called on a query and iterated
Stream ==
    /\ pc = "graph" /\ run # "active" /\ Len(runsLog) < MaxRuns
    /\ \E q \in Queries : StartRun(q, "graph")
    /\ UNCHANGED loopVars

\* the consumer of Spec takes the next event without looking into it; when
\* no node is scheduled the run has reached END
Discard ==
    /\ pc = "graph" /\ event # NoEvent
    /\ event' = NoEvent
    /\ run' = IF active = {} THEN "ended" ELSE run
    /\ UNCHANGED <<loopVars, runsLog, query, messages, chatbot_answer,
                   tool_answer, active, executed, calls, callFailed, label,
                   merged, nextId>>

\* lines 144-145: value["messages"][-1].content is printed. The router's
\* update holds a string under "messages": its last element is a character,
\* which has no attribute content (and the empty string has no last element).
PrintEvent ==
    /\ pc \in {"stream", "handler"} /\ event # NoEvent
    /\ IF event.kind = "str"
       THEN Raise(executed, calls, callFailed)
       ELSE /\ printed' = Append(printed, event.msgs[Len(event.msgs)].content)
            /\ event' = NoEvent
            /\ IF active = {}
               THEN Return
               ELSE UNCHANGED <<run, pc>>
            /\ UNCHANGED <<line, reads, raisedAt, runsLog, query, messages,
                           chatbot_answer, tool_answer, active, executed, calls,
                           callFailed, label, merged, nextId>>

---------------------------------------------------------------------------
(* The interactive loop, lines 147-158 *)

\* line 150 with user_input.strip().lower()
ReadLine_Strip ==
    /\ pc = "prompt" /\ reads < MaxReads
    /\ \E l \in Lines :
        /\ line' = l
        /\ reads' = reads + 1
        /\ IF lower(strip(l)) \in QuitWords
           THEN /\ pc' = "done"
                /\ UNCHANGED <<runVars, runsLog, nextId>>
           ELSE /\ pc' = "stream"
                /\ StartRun(l, "try")
        /\ UNCHANGED <<raisedAt, printed>>

\* lines 149-153: a line is read; quit, exit and q in any letter case leave
\* the loop, any other line is streamed through the graph
ReadLine ==
    /\ pc = "prompt" /\ reads < MaxReads
    /\ \E l \in Lines :
        /\ line' = l
        /\ reads' = reads + 1
        /\ IF lower(l) \in QuitWords
           THEN /\ pc' = "done"
                /\ UNCHANGED <<runVars, runsLog, nextId>>
           ELSE /\ pc' = "stream"
                /\ StartRun(l, "try")
        /\ UNCHANGED <<raisedAt, printed>>

\* input() raises (end of input, an interrupt)
InputRaises ==
    /\ pc = "prompt"
    /\ Raise(executed, calls, callFailed)

---------------------------------------------------------------------------
(* Specifications *)

Next ==
    \/ Stream
    \/ RouterNode
    \/ ChatbotNode
    \/ ToolsNode
    \/ CompareNode
    \/ Discard

Spec == Init /\ [][Next]_vars

\* Every step of a run at line 143 yields the router's update first, and
\* line 145 raises on it, so the generator is closed before a second node
\* runs: the steps of the script are those of the loop, the router step and
\* the print.
LoopNext ==
    \/ ReadLine
    \/ InputRaises
    \/ RouterNode
    \/ PrintEvent

LoopSpec == LoopInit /\ [][LoopNext]_vars

\* the script with every node's step allowed, to check the remark above
LoopAllNext ==
    \/ LoopNext
    \/ ChatbotNode
    \/ ToolsNode
    \/ CompareNode

LoopAllSpec == LoopInit /\ [][LoopAllNext]_vars

\* in the script no step but the router's is ever taken by a run
OnlyRouterRuns == pc # "graph" => executed \in {<<>>, <<"router">>}

---------------------------------------------------------------------------
(* Properties *)

Range(s) == {s[i] : i \in 1..Len(s)}

IsPrefix(s, t) == Len(s) <= Len(t) /\ SubSeq(t, 1, Len(s)) = s

\* the state right after the router step of a run
AfterRouter == run = "active" /\ executed = <<"router">> /\ Len(calls) = 2

C2_MessagesOnlyGrow ==
    [][Len(runsLog') = Len(runsLog) => IsPrefix(messages, messages')]_vars

\* a run in which router, chatbot and compare each appended a message
C2_Witness ==
    /\ run = "ended"
    /\ executed = <<"router", "chatbot", "compare">>
    /\ Len(messages) = 4

\* C3: a run in which every language-model call returned executes router,
\* chatbot, compare, or router, tools, compare, or router, compare.
C3_NodeSequences ==
    (run \in {"ended", "raised"} /\ ~callFailed) =>
        executed \in {<<"router", "chatbot", "compare">>,
                      <<"router", "tools", "compare">>,
                      <<"router", "compare">>}

\* C4: when the label is both, chatbot and tools have both run by the time
\* compare runs.
C4_BothRunsChatbotAndTools ==
    (label = [kind |-> "str", text |-> S_both] /\ "compare" \in Range(executed)) =>
        {"chatbot", "tools"} \subseteq Range(executed)

\* C5: a run ends without reaching END only if a language-model or tool call
\* raised.
C5_RunReachesEnd == run = "raised" => callFailed

\* C6: the step that executes the router node leaves messages,
\* chatbot_answer and tool_answer as they were.
C6_RouterLeavesStateUnchanged ==
    [][executed' = Append(executed, "router") =>
          /\ messages' = messages
          /\ chatbot_answer' = chatbot_answer
          /\ tool_answer' = tool_answer]_vars

\* C7 as claimed: no exception ever escapes the loop.
C7_NoExceptionEscapes == pc # "crashed"

\* C7 amended: an exception raised in the try block is caught and the
\* fallback question is run; an exception raised while that run is in
\* progress, and only such an exception, ends the script.
C7_OnlyHandlerExceptionsEscape ==
    /\ Len(raisedAt) <= 2
    /\ pc = "crashed" <=> Len(raisedAt) = 2
    /\ Len(raisedAt) >= 1 =>
          /\ raisedAt[1] \in {"prompt", "stream"}
          /\ runsLog[Len(runsLog)] = [q |-> Fallback, from |-> "except"]
    /\ Len(raisedAt) = 1 => pc \in {"handler", "done"}
    /\ Len(raisedAt) = 2 => raisedAt[2] = "handler"

\* an exception of the graph run on the entered line has been caught
C7_Witness ==
    /\ raisedAt = <<"stream">>
    /\ pc = "handler"
    /\ run = "active"

\* C8: once an exception has been raised, the runs of the session are the
\* runs on the lines read before it followed by exactly one run on the
\* hardcoded question, and the loop is never back at the prompt.
C8_OneFallbackRunThenStop ==
    Len(raisedAt) >= 1 =>
        LET n == Len(runsLog) IN
        /\ n >= 1
        /\ runsLog[n] = [q |-> Fallback, from |-> "except"]
        /\ \A i \in 1..(n - 1) : runsLog[i].from = "try"
        /\ reads = n - 1
        /\ pc \in {"handler", "done", "crashed"}

\* the loop has stopped after one run on a line and one on the fallback
C8_Witness ==
    /\ pc = "crashed"
    /\ reads = 1
    /\ Len(runsLog) = 2
    /\ runsLog[1].from = "try"
    /\ runsLog[2] = [q |-> Fallback, from |-> "except"]

\* C9 as claimed: the loop stops without running the graph exactly when the
\* entered line is one of the literals.
C9_StopsExactlyOnQuitLiterals ==
    (reads >= 1 /\ raisedAt = <<>>) =>
        ((pc = "done" /\ Len(runsLog) = reads - 1) <=> line \in QuitWords)

\* C9 amended: the loop stops without running the graph exactly when the
\* entered line, lower-cased, is one of the literals; every other line
\* starts one run on that line.
C9_StopsOnQuitIgnoringCase ==
    (reads >= 1 /\ raisedAt = <<>>) =>
        IF lower(line) \in QuitWords
        THEN pc = "done" /\ Len(runsLog) = reads - 1
        ELSE /\ pc \in {"stream", "prompt"}
             /\ Len(runsLog) = reads
             /\ runsLog[reads] = [q |-> line, from |-> "try"]

\* an upper-case QUIT has stopped the loop without a run
C9_Witness ==
    /\ pc = "done"
    /\ line = <<"Q","U","I","T">>
    /\ runsLog = <<>>

\* C10: a run starts with the one user message of its query in messages and
\* with chatbot_answer and tool_answer unset.
C10_FreshStatePerRun ==
    (run = "active" /\ executed = <<>>) =>
        /\ Len(messages) = 1
        /\ messages[1].type = "human"
        /\ messages[1].content = query
        /\ chatbot_answer = <<>>
        /\ tool_answer = <<>>

\* a second run starts after a run in which router, chatbot and compare
\* wrote to the state
C10_Witness ==
    /\ Len(runsLog) = 2
    /\ run = "active"
    /\ executed = <<>>
    /\ messages[1].id = 5

\* C11: consuming the update of a node that executed prints one line, the
\* content of the latest message of the state, and does not raise.
C11_OneLinePerNode ==
    [][(pc \in {"stream", "handler"} /\ event # NoEvent /\ event' # event) =>
          /\ printed' = Append(printed, messages[Len(messages)].content)
          /\ raisedAt' = raisedAt]_vars

\* C12: once the tools node has executed, the run has not raised and
\* messages holds a tool-output message.
C12_ToolsAppendsOutput ==
    "tools" \in Range(executed) =>
        /\ run # "raised"
        /\ \E i \in 1..Len(messages) : messages[i].type = "tool"

\* C13: a step in which the chatbot node returns appends exactly one
\* message, the model's, sets chatbot_answer to that message's content and
\* leaves tool_answer as it was.
C13_ChatbotAppendsAndRecords ==
    [][(executed' = Append(executed, "chatbot") /\ run' = "active") =>
          /\ Len(messages') = Len(messages) + 1
          /\ IsPrefix(messages, messages')
          /\ messages'[Len(messages')].type = "ai"
          /\ chatbot_answer' = <<messages'[Len(messages')].content>>
          /\ tool_answer' = tool_answer]_vars

\* the chatbot node has just returned
C13_Witness ==
    /\ run = "active"
    /\ executed = <<"router", "chatbot">>
    /\ Len(messages) = 3
    /\ chatbot_answer = <<messages[3].content>>

\* C14: a step in which the compare node returns appends exactly one
\* message, leaves chatbot_answer and tool_answer as they were, and has read
\* each answer from the state, an unset answer as the empty string.
C14_CompareAppendsOnly ==
    [][(executed' = Append(executed, "compare") /\ run' = "active") =>
          /\ Len(messages') = Len(messages) + 1
          /\ IsPrefix(messages, messages')
          /\ chatbot_answer' = chatbot_answer
          /\ tool_answer' = tool_answer
          /\ merged'.read
          /\ merged'.chatbot_ans =
                 (IF chatbot_answer = <<>> THEN <<>> ELSE chatbot_answer[1])
          /\ merged'.tool_ans =
                 (IF tool_answer = <<>> THEN <<>> ELSE tool_answer[1])]_vars

\* compare has run right after router and read two missing answers
C14_Witness ==
    /\ executed = <<"router", "compare">>
    /\ Len(messages) = 3
    /\ merged = [read |-> TRUE, chatbot_ans |-> <<>>, tool_ans |-> <<>>]

\* C15: a router step in which every model call returned has made exactly
\* two classification calls, and the node scheduled next is the one the
\* second reply maps to.
C15_TwoClassificationCalls ==
    ("router" \in Range(executed) /\ ~callFailed) =>
        /\ Len(calls) = 2
        /\ executed = <<"router">> /\ run = "active" =>
              active = {route_decision(router(calls[2]))}

\* C16: at most one node is scheduled for any step of a run; chatbot and
\* tools are never scheduled together.
C16_OneNodePerStep ==
    /\ Cardinality(active) <= 1
    /\ ~({"chatbot", "tools"} \subseteq active)

\* chatbot, which has an edge to compare and an edge to END, has scheduled
\* compare alone
C16_Witness ==
    /\ run = "active"
    /\ executed = <<"router", "chatbot">>
    /\ active = {"compare"}

\* C17: tool_answer is unset in every state, and the tool answer compare
\* has read is the empty string.
C17_ToolAnswerNeverSet ==
    /\ tool_answer = <<>>
    /\ merged.read => merged.tool_ans = <<>>

\* compare has run after chatbot, with chatbot_answer set and tool_answer not
C17_Witness ==
    /\ executed = <<"router", "chatbot", "compare">>
    /\ merged.read
    /\ merged.chatbot_ans # <<>>
    /\ merged.tool_ans = <<>>

====
